---- MODULE Spec2Model ----
(***************************************************************************)
(* A model of src/python/http.py: request(url), _get_headers_and_body,     *)
(* unchunked and decompress.  Text and bytes are sequences of one-character *)
(* strings, so that split, strip, lower, readline and int work on the       *)
(* characters as the Python code does.                                      *)
(***************************************************************************)
EXTENDS Integers, Sequences, FiniteSets, TLC

\* ------------------------------------------------------------------------
\* Bounds of the model
\* ------------------------------------------------------------------------
\* longest payload of a generated data: URL
MaxPayload == 2
\* largest number of header lines in a generated header block
MaxHeaders == 2
\* largest number of chunks in a generated chunked body
MaxChunks == 2

\* ------------------------------------------------------------------------
\* Characters and words
\* ------------------------------------------------------------------------
CR == "\r"
LF == "\n"
CRLF == <<CR, LF>>

HTTP == <<"h", "t", "t", "p">>
HTTPS == <<"h", "t", "t", "p", "s">>
DATA == <<"d", "a", "t", "a">>
FTP == <<"f", "t", "p">>

UPPER == <<"A", "B", "C", "D", "E", "F", "G", "H", "I", "J", "K", "L", "M",
           "N", "O", "P", "Q", "R", "S", "T", "U", "V", "W", "X", "Y", "Z">>
LOWERS == <<"a", "b", "c", "d", "e", "f", "g", "h", "i", "j", "k", "l", "m",
            "n", "o", "p", "q", "r", "s", "t", "u", "v", "w", "x", "y", "z">>
DIGITS == <<"0", "1", "2", "3", "4", "5", "6", "7", "8", "9">>

\* ------------------------------------------------------------------------
\* Python string primitives
\* ------------------------------------------------------------------------
\* str.find(c): index of the first occurrence of character c, 0 when absent
Find(s, c) ==
  IF \E i \in 1..Len(s) : s[i] = c
  THEN CHOOSE i \in 1..Len(s) : s[i] = c /\ \A j \in 1..(i - 1) : s[j] # c
  ELSE 0

\* str.rsplit(c, 1), were the code to cut at the last c instead of the first
RSplit1(s, c) ==
  IF \E i \in 1..Len(s) : s[i] = c
  THEN LET i == CHOOSE i \in 1..Len(s) : s[i] = c /\ \A j \in (i + 1)..Len(s) : s[j] # c
       IN  <<SubSeq(s, 1, i - 1), SubSeq(s, i + 1, Len(s))>>
  ELSE <<s>>

\* str.split(c, 1): one element when c is absent, otherwise the text before
\* the first c and the text after it
Split1(s, c) ==
  LET i == Find(s, c)
  IN  IF i = 0 THEN <<s>>
      ELSE <<SubSeq(s, 1, i - 1), SubSeq(s, i + 1, Len(s))>>

\* str.split(c, 2): at most three elements, cut at the first two c
Split2(s, c) ==
  LET a == Split1(s, c)
  IN  IF Len(a) = 1 THEN a ELSE <<a[1]>> \o Split1(a[2], c)

\* str.removeprefix("//")
RemoveSlashes(s) ==
  IF Len(s) >= 2 /\ s[1] = "/" /\ s[2] = "/" THEN SubSeq(s, 3, Len(s)) ELSE s

LowerChar(c) ==
  IF \E i \in 1..26 : UPPER[i] = c
  THEN LOWERS[CHOOSE i \in 1..26 : UPPER[i] = c]
  ELSE c

\* the header key as a bug would leave it: casing of the wire kept
KeepCase(s) == s

\* str.lower()
Lower(s) == [i \in 1..Len(s) |-> LowerChar(s[i])]

IsSpace(c) == c \in {" ", "\t", CR, LF}

RECURSIVE LStrip(_)
LStrip(s) == IF s # <<>> /\ IsSpace(Head(s)) THEN LStrip(Tail(s)) ELSE s

RECURSIVE RStrip(_)
\* bytes.rstrip() / the right half of str.strip()
RStrip(s) ==
  IF s # <<>> /\ IsSpace(s[Len(s)]) THEN RStrip(SubSeq(s, 1, Len(s) - 1)) ELSE s

\* str.strip()
Strip(s) == LStrip(RStrip(s))

\* value of a digit character in the given base, -1 when it is no digit
DigitVal(c, base) ==
  LET v == IF \E i \in 1..10 : DIGITS[i] = c
           THEN (CHOOSE i \in 1..10 : DIGITS[i] = c) - 1
           ELSE IF \E i \in 1..6 : LOWERS[i] = LowerChar(c)
           THEN (CHOOSE i \in 1..6 : LOWERS[i] = LowerChar(c)) + 9
           ELSE -1
  IN  IF v < base THEN v ELSE -1

\* int(s, base) raises ValueError unless s is a non-empty run of digits
IsInt(s, base) ==
  /\ s # <<>>
  /\ \A i \in 1..Len(s) : DigitVal(s[i], base) >= 0

RECURSIVE ToInt(_, _)
\* int(s, base) on a run of digits, most significant digit first
ToInt(s, base) ==
  IF s = <<>> THEN 0
  ELSE ToInt(SubSeq(s, 1, Len(s) - 1), base) * base + DigitVal(s[Len(s)], base)

\* ------------------------------------------------------------------------
\* The URLs given to request
\* ------------------------------------------------------------------------
RECURSIVE SeqsUpTo(_, _)
\* all sequences over S of length at most n
SeqsUpTo(S, n) ==
  IF n = 0 THEN {<<>>}
  ELSE LET shorter == SeqsUpTo(S, n - 1)
       IN  shorter \cup {Append(s, c) : s \in shorter, c \in S}

HostEx == <<"e", "x">>
ContentTypes == {<<>>, <<"t", "/", "h">>, <<"t", ":", "h">>}
Payloads == SeqsUpTo({",", ":", "a"}, MaxPayload)

\* data:<content-type>,<payload>
DataURL(ct, payload) == DATA \o <<":">> \o ct \o <<",">> \o payload
DataURLs == {DataURL(ct, p) : ct \in ContentTypes, p \in Payloads}

PortSuffixes == {<<>>, <<":", "8", "0", "8", "0">>, <<":", "8", "a">>}
Paths == {<<>>, <<"/">>, <<"/", "x", ":", "y">>}

\* <scheme>://<host>[:<port>][<path>]
NetURL(sch, h, suffix, p) == sch \o <<":", "/", "/">> \o h \o suffix \o p
NetURLs ==
  {NetURL(sch, HostEx, sfx, p) : sch \in {HTTP, HTTPS}, sfx \in PortSuffixes,
                                 p \in Paths}

OtherURLs ==
  { HostEx \o <<"/", "x">>,                  \* no colon at all
    NetURL(FTP, HostEx, <<>>, <<"/">>),        \* unknown scheme
    DATA \o <<":", "t", "/", "h">>,           \* data URL without a comma
    HTTP \o <<":">> \o HostEx \o <<"/", "x">>,   \* no // before the host
    <<>>,                                      \* the empty string
    NetURL(<<"H", "T", "T", "P">>, HostEx, <<>>, <<"/">>) }  \* scheme in capitals

URLs == DataURLs \cup NetURLs \cup OtherURLs

\* ------------------------------------------------------------------------
\* Literals of http.py
\* ------------------------------------------------------------------------
TE_KEY == <<"t", "r", "a", "n", "s", "f", "e", "r", "-", "e", "n", "c", "o", "d", "i", "n", "g">>
CE_KEY == <<"c", "o", "n", "t", "e", "n", "t", "-", "e", "n", "c", "o", "d", "i", "n", "g">>
CT_KEY == <<"c", "o", "n", "t", "e", "n", "t", "-", "t", "y", "p", "e">>
CL_KEY == <<"c", "o", "n", "t", "e", "n", "t", "-", "l", "e", "n", "g", "t", "h">>
TE_WIRE == <<"T", "r", "a", "n", "s", "f", "e", "r", "-", "E", "n", "c", "o", "d", "i", "n", "g">>
CE_WIRE == <<"C", "o", "n", "t", "e", "n", "t", "-", "E", "n", "c", "o", "d", "i", "n", "g">>
CE_UPPER == <<"C", "O", "N", "T", "E", "N", "T", "-", "E", "N", "C", "O", "D", "I", "N", "G">>
CL_WIRE == <<"C", "o", "n", "t", "e", "n", "t", "-", "L", "e", "n", "g", "t", "h">>
CT_WIRE == <<"C", "o", "n", "t", "e", "n", "t", "-", "T", "y", "p", "e">>
CHUNKED == <<"c", "h", "u", "n", "k", "e", "d">>
GZIP == <<"g", "z", "i", "p">>
DEFLATE == <<"d", "e", "f", "l", "a", "t", "e">>
BR == <<"b", "r">>
IDENTITY == <<"i", "d", "e", "n", "t", "i", "t", "y">>
ZSTD == <<"z", "s", "t", "d">>
STATUS_200 == <<"2", "0", "0">>
HTTP11 == <<"H", "T", "T", "P", "/", "1", ".", "1">>
GET_ == <<"G", "E", "T", " ">>
HTTP11_EOL == <<" ", "H", "T", "T", "P", "/", "1", ".", "1", CR, LF>>
HOST_ == <<"H", "o", "s", "t", ":", " ">>
CONNECTION_CLOSE == <<"C", "o", "n", "n", "e", "c", "t", "i", "o", "n", ":", " ", "c", "l", "o", "s", "e", CR, LF>>
USER_AGENT_ == <<"U", "s", "e", "r", "-", "A", "g", "e", "n", "t", ":", " ", "M", "o", "z", "i", "l", "l", "a", "/", "5", ".", "0", " ", "(">>
PLATFORM == <<"l", "i", "n", "u", "x">>
ACCEPT_ENCODING_ == <<"A", "c", "c", "e", "p", "t", "-", "E", "n", "c", "o", "d", "i", "n", "g", ":", " ">>
UNKNOWN_SCHEME_ == <<"U", "n", "k", "n", "o", "w", "n", " ", "s", "c", "h", "e", "m", "e", " ">>

\* ------------------------------------------------------------------------
\* The codecs of gzip, zlib and brotli, reduced to what the pipeline can
\* observe: a compressed stream is recognised by its framing, fails to
\* decode without it, and its bytes are not the bytes of the payload.
\* ------------------------------------------------------------------------
Reverse(s) == [i \in 1..Len(s) |-> s[Len(s) + 1 - i]]

\* a byte that is not valid UTF-8
InvalidByte == "#"

GzipCompress(x) == <<"G">> \o Reverse(x)
GzipOk(d) == d # <<>> /\ d[1] = "G"
GzipDecompress(d) == Reverse(Tail(d))

\* raw deflate: no header, the stream ends with its final block
DeflateCompress(x) == Reverse(x) \o <<"E">>
DeflateOk(d) == d # <<>> /\ d[Len(d)] = "E"
DeflateDecompress(d) == Reverse(SubSeq(d, 1, Len(d) - 1))

BrotliCompress(x) == <<"B">> \o Reverse(x)
BrotliOk(d) == d # <<>> /\ d[1] = "B"
BrotliDecompress(d) == Reverse(Tail(d))

\* bytes.decode(): UTF-8 text of the bytes, UnicodeDecodeError otherwise
Utf8Ok(b) == \A i \in 1..Len(b) : b[i] # InvalidByte

\* ------------------------------------------------------------------------
\* The responses a server puts on the stream
\* ------------------------------------------------------------------------
RECURSIVE Flatten(_)
\* concatenation of a sequence of byte strings
Flatten(ss) == IF ss = <<>> THEN <<>> ELSE Head(ss) \o Flatten(Tail(ss))

HexDigit(n) == IF n < 10 THEN DIGITS[n + 1] ELSE LOWERS[n - 9]

RECURSIVE Hex(_)
Hex(n) == IF n < 16 THEN <<HexDigit(n)>> ELSE Hex(n \div 16) \o <<HexDigit(n % 16)>>

\* the chunk size in hexadecimal, left-padded with zeros to width w
HexPad(n, w) ==
  LET h == Hex(n)
  IN  IF Len(h) < w THEN [i \in 1..(w - Len(h)) |-> "0"] \o h ELSE h

RECURSIVE EncodeChunks(_, _)
EncodeChunks(cs, w) ==
  IF cs = <<>> THEN <<>>
  ELSE HexPad(Len(Head(cs)), w) \o CRLF \o Head(cs) \o CRLF
       \o EncodeChunks(Tail(cs), w)

\* <hex size>\r\n<data>\r\n ... 0\r\n\r\n
EncodeChunked(cs, w) == EncodeChunks(cs, w) \o HexPad(0, w) \o CRLF \o CRLF

LongChunk == [i \in 1..17 |-> "c"]
ChunkData == {<<"a">>, <<"b", CR, LF>>, LongChunk}
ChunkSeqs == SeqsUpTo(ChunkData, MaxChunks)
PadWidths == {1, 2}

\* the ways a server cuts a body into one or two non-empty chunks
Splits(b) ==
  IF b = <<>> THEN {<<>>}
  ELSE {<<b>>} \cup {<<SubSeq(b, 1, k), SubSeq(b, k + 1, Len(b))>> :
                       k \in 1..(Len(b) - 1)}

HeaderLine(name, value) == name \o <<":">> \o value \o CRLF
StatusLine(code, reason) == HTTP11 \o <<" ">> \o code \o <<" ">> \o reason \o CRLF
OkLine == StatusLine(STATUS_200, <<"O", "K">>)
NotFound == <<"N", "o", "t", " ", "F", "o", "u", "n", "d">>
Moved == <<"M", "o", "v", "e", "d">>

\* bytes: everything the stream carries; body: the bytes after the blank line
Response(statusline, block, b) ==
  [bytes |-> statusline \o block \o CRLF \o b, body |-> b]

Text == <<"a", "b">>

PlainLines ==
  { HeaderLine(<<"X", "-", "A">>, <<" ", "v">>),
    HeaderLine(<<"x", "-", "a">>, <<"w", " ">>),
    HeaderLine(CT_WIRE, <<" ", "t", "/", "h">>),
    <<"b", "a", "d">> \o CRLF }

HeaderFamily ==
  {Response(OkLine, Flatten(ls), Text) : ls \in SeqsUpTo(PlainLines, MaxHeaders)}

TELines == {HeaderLine(TE_WIRE, <<" ">> \o CHUNKED), HeaderLine(TE_KEY, CHUNKED)}

ChunkedFamily ==
  {Response(OkLine, te, EncodeChunked(cs, w)) :
     te \in TELines, cs \in ChunkSeqs, w \in PadWidths}

CELines ==
  { HeaderLine(CE_WIRE, <<" ">> \o GZIP), HeaderLine(CE_UPPER, GZIP),
    HeaderLine(CE_WIRE, <<" ">> \o DEFLATE), HeaderLine(CE_WIRE, <<" ">> \o BR),
    HeaderLine(CE_WIRE, <<" ">> \o IDENTITY), HeaderLine(CE_WIRE, <<" ">> \o ZSTD),
    HeaderLine(CE_WIRE, <<" ", "I">> \o Tail(IDENTITY)) }

EncodedBodies ==
  { GzipCompress(Text), DeflateCompress(Text), BrotliCompress(Text), Text,
    GzipCompress(<<"a", InvalidByte>>) }

EncodedFamily ==
  {Response(OkLine, ce, b) : ce \in CELines, b \in EncodedBodies}
  \cup
  UNION {{Response(OkLine, HeaderLine(TE_WIRE, <<" ">> \o CHUNKED) \o ce,
                   EncodeChunked(cs, 1)) : cs \in Splits(b)} :
           ce \in CELines, b \in EncodedBodies}

LengthBodies == {<<>>, Text, <<"a", "b", "c", "d">>}

LengthFamily ==
  {Response(OkLine, HeaderLine(CL_WIRE, <<" ", DIGITS[n + 1]>>), b) :
     n \in {0, 2, 3}, b \in LengthBodies}
  \cup
  { Response(OkLine, HeaderLine(TE_WIRE, <<" ">> \o GZIP), GzipCompress(Text)),
    Response(OkLine, HeaderLine(CL_WIRE, <<" ", "2">>)
                     \o HeaderLine(TE_WIRE, <<" ">> \o CHUNKED),
             EncodeChunked(<<Text>>, 1)),
    Response(OkLine, <<>>, <<>>),
    Response(OkLine, <<>>, <<"a", InvalidByte>>) }

ErrorFamily ==
  { Response(StatusLine(<<"4", "0", "4">>, NotFound),
             HeaderLine(CT_WIRE, <<" ", "t", "/", "h">>), Text),
    Response(StatusLine(<<"3", "0", "1">>, Moved),
             HeaderLine(<<"L", "o", "c", "a", "t", "i", "o", "n">>, <<" ", "/", "y">>),
             <<>>),
    Response(StatusLine(<<"2", "0", "4">>, <<>>), <<>>, <<>>),
    \* a status line of two tokens only
    Response(HTTP11 \o <<" ", "4", "0", "4">> \o CRLF, <<>>, Text),
    \* the stream closes at once, after the status line, inside the headers
    [bytes |-> <<>>, body |-> <<>>],
    [bytes |-> OkLine, body |-> <<>>],
    [bytes |-> OkLine \o HeaderLine(CT_WIRE, <<" ", "t", "/", "h">>), body |-> <<>>] }

\* a chunked body cut short by the close of the stream, at every byte
TruncatedChunks == <<Text, <<"c">>>>

TruncatedFamily ==
  UNION {{Response(OkLine, HeaderLine(TE_WIRE, <<" ">> \o CHUNKED),
                   SubSeq(EncodeChunked(TruncatedChunks, w), 1, k)) :
            k \in 0..(Len(EncodeChunked(TruncatedChunks, w)) - 1)} :
         w \in PadWidths}

Responses ==
  HeaderFamily \cup ChunkedFamily \cup EncodedFamily \cup LengthFamily
  \cup ErrorFamily \cup TruncatedFamily

\* ------------------------------------------------------------------------
\* State of one call of request(url)
\* ------------------------------------------------------------------------
VARIABLES
  arg,        \* the url argument as the caller gave it
  brotli,     \* whether the import of brotli at lines 7-10 succeeded
  pc,         \* position of the call in the code
  url,        \* local url: the text after the scheme (line 15)
  scheme, host, port, path,
  sock,       \* socket.socket(...) of line 34
  ssock,      \* ctx.wrap_socket(...) of line 37
  sni,        \* server_hostname given to wrap_socket
  peer,       \* the address given to connect
  response,   \* sock.makefile(...) of line 58
  stream,     \* the bytes the server sends before it closes the stream
  srvBody,    \* the part of those bytes that follows the blank line
  pos,        \* index of the next byte the reader returns
  sent,       \* the buffers given to send, in order
  hlines,     \* the header lines read by the loop of lines 69-74
  headers, ret, body,
  calls,      \* unchunked / decompress / decode as they ran, with their bytes
  result,     \* the pair returned by request
  err         \* the exception raised by request

\* ------------------------------------------------------------------------
\* State of a call of lex(body) and of a graphics.Browser
\* ------------------------------------------------------------------------
VARIABLES
  origin,       \* the argument of lex
  text,         \* what lex returned
  lexed,        \* whether lex has returned
  gpc,          \* the Browser: built, in the loop of layout, in the event loop
  cursor_x, cursor_y,
  scroll, min_scroll, max_scroll,
  display_list, \* the (x, y, c) triples of layout
  canvas,       \* the (x, y, c) triples drawn by the last render
  event         \* the last key or wheel event handled

lexVars == <<origin, text, lexed>>
guiVars ==
  <<gpc, cursor_x, cursor_y, scroll, min_scroll, max_scroll, display_list, canvas,
    event>>

\* what a call of request is given and leaves as it is
inVars == <<arg, brotli, lexVars, guiVars>>
urlVars == <<url, scheme, host, port, path>>
netVars == <<sock, ssock, response>>
ioVars == <<sni, peer, stream, srvBody, pos, sent>>
respVars == <<hlines, headers, ret, body, calls>>
outVars == <<result, err>>
vars == <<inVars, pc, urlVars, netVars, ioVars, respVars, outVars>>

EmptyMap == [k \in {} |-> <<>>]

\* no call of lex yet
LexIdle == origin = <<>> /\ text = <<>> /\ lexed = FALSE

\* lines 14-16 of graphics.py: the fields of a Browser as __init__ sets them
GuiNew ==
  /\ gpc = "new"
  /\ cursor_x = 0 /\ cursor_y = 0
  /\ scroll = 0 /\ min_scroll = 0 /\ max_scroll = 0
  /\ display_list = <<>> /\ canvas = {} /\ event = "none"

\* the locals and resources of request before its first line has run
Fresh ==
  /\ pc = "start"
  /\ url = arg
  /\ scheme = <<>> /\ host = <<>> /\ port = 0 /\ path = <<>>
  /\ sock = "none" /\ ssock = "none" /\ response = "none"
  /\ sni = <<>> /\ peer = <<>>
  /\ stream = <<>> /\ srvBody = <<>> /\ pos = 1
  /\ sent = <<>>
  /\ hlines = <<>> /\ headers = EmptyMap /\ ret = <<>> /\ body = <<>>
  /\ calls = <<>>
  /\ result = [headers |-> EmptyMap, body |-> <<>>]
  /\ err = [kind |-> "none", msg |-> <<>>]

Init ==
  /\ arg \in URLs
  /\ brotli \in BOOLEAN
  /\ LexIdle /\ GuiNew
  /\ Fresh

\* a resource left as it is when its with block is left
LeaveOpen(r) == r

\* __exit__ of a with block: an open resource is closed
Close(r) == IF r \in {"created", "connected", "open"} THEN "closed" ELSE r

\* leaving the with blocks of lines 58, 37 and 34, innermost first
Unwind ==
  /\ response' = Close(response)
  /\ ssock' = Close(ssock)
  /\ sock' = Close(sock)

\* a failure of the connection or of the exchange answered by a second attempt
RaiseAndRetry(kind, msg) ==
  /\ pc' = IF pc \in {"connect", "send", "status"} THEN "socket" ELSE "raised"
  /\ err' = [kind |-> kind, msg |-> msg]
  /\ result' = result
  /\ Unwind

\* an exception leaves request through every enclosing with block
Raise(kind, msg) ==
  /\ pc' = "raised"
  /\ err' = [kind |-> kind, msg |-> msg]
  /\ result' = result
  /\ Unwind

\* return of the pair (headers, body)
Return(h, b) ==
  /\ pc' = "returned"
  /\ result' = [headers |-> h, body |-> b]
  /\ err' = err
  /\ Unwind

Goto(p) == pc' = p /\ UNCHANGED outVars

\* port = 80 for every scheme
DefaultPort80(sch) == 80

\* line 17
DefaultPort(sch) == IF sch = HTTP THEN 80 ELSE 443

\* a scheme check that lets every scheme through
AnyScheme(sch) == TRUE

\* line 16: scheme in ["http", "https", "data"]
KnownScheme(sch) == sch \in {HTTP, HTTPS, DATA}

\* lines 15-22: the scheme, and the whole of a data URL
ParseScheme ==
  /\ pc = "start"
  /\ UNCHANGED <<inVars, ioVars, respVars, host, path>>
  /\ LET parts == Split1(arg, ":")
     IN  IF Len(parts) # 2
         THEN Raise("ValueError", <<>>) /\ UNCHANGED <<url, scheme, port>>
         ELSE /\ scheme' = parts[1]
              /\ url' = parts[2]
              /\ IF ~KnownScheme(parts[1])
                 THEN Raise("AssertionError", UNKNOWN_SCHEME_ \o parts[1])
                      /\ UNCHANGED port
                 ELSE /\ port' = DefaultPort(parts[1])
                      /\ IF parts[1] = DATA
                         THEN LET dp == Split1(parts[2], ",")
                              IN  IF Len(dp) # 2
                                  THEN Raise("ValueError", <<>>)
                                  ELSE Return((CT_KEY :> dp[1]), dp[2])
                         ELSE Goto("parse_host") /\ UNCHANGED netVars

\* lines 25-26
ParseHost ==
  /\ pc = "parse_host"
  /\ UNCHANGED <<inVars, ioVars, respVars, url, scheme, port>>
  /\ LET parts == Split1(RemoveSlashes(url), "/")
     IN  IF Len(parts) # 2
         THEN Raise("ValueError", <<>>) /\ UNCHANGED <<host, path>>
         ELSE /\ host' = parts[1]
              /\ path' = <<"/">> \o parts[2]
              /\ Goto("parse_port") /\ UNCHANGED netVars

\* lines 29-31
ParsePort ==
  /\ pc = "parse_port"
  /\ UNCHANGED <<inVars, ioVars, respVars, url, scheme, path>>
  /\ IF ":" \in {host[i] : i \in 1..Len(host)}
     THEN LET parts == Split1(host, ":")
          IN  /\ host' = parts[1]
              /\ IF IsInt(parts[2], 10)
                 THEN /\ port' = ToInt(parts[2], 10)
                      /\ Goto("socket") /\ UNCHANGED netVars
                 ELSE Raise("ValueError", <<>>) /\ UNCHANGED port
     ELSE Goto("socket") /\ UNCHANGED <<netVars, host, port>>

\* line 34
CreateSocket ==
  /\ pc = "socket"
  /\ UNCHANGED <<inVars, urlVars, ioVars, respVars, ssock, response>>
  /\ sock' = "created"
  /\ Goto(IF scheme = HTTPS THEN "wrap" ELSE "connect")

\* lines 35-37: wrap_socket takes over the descriptor and detaches sock
WrapSocket ==
  /\ pc = "wrap"
  /\ UNCHANGED <<inVars, urlVars, respVars>>
  /\ UNCHANGED <<peer, stream, srvBody, pos, sent>>
  /\ sni' = host
  /\ \E ok \in BOOLEAN :
       IF ok
       THEN /\ ssock' = "created"
            /\ sock' = "closed"
            /\ response' = response
            /\ Goto("connect")
       ELSE Raise("SSLError", <<>>)

\* the socket _get_headers_and_body works on
Active == IF scheme = HTTPS THEN ssock ELSE sock

\* line 43: connect, with the TLS handshake when the socket is wrapped
Connect ==
  /\ pc = "connect"
  /\ UNCHANGED <<inVars, urlVars, respVars>>
  /\ UNCHANGED <<sni, stream, srvBody, pos, sent>>
  /\ peer' = <<host, port>>
  /\ \E ok \in BOOLEAN :
       IF ok
       THEN /\ sock' = IF scheme = HTTPS THEN sock ELSE "connected"
            /\ ssock' = IF scheme = HTTPS THEN "connected" ELSE ssock
            /\ response' = response
            /\ Goto("send")
       ELSE Raise("OSError", <<>>)

\* br offered whether or not the brotli module was imported
AcceptEncodingAlwaysBr == GZIP \o <<",">> \o DEFLATE \o <<",">> \o BR

\* lines 44-47
AcceptEncoding ==
  GZIP \o <<",">> \o DEFLATE \o (IF brotli THEN <<",">> \o BR ELSE <<>>)

\* the request with the blank line sent before the headers
RequestLinesBlankFirst ==
  << GET_ \o path \o HTTP11_EOL,
     CRLF,
     HOST_ \o host \o CRLF,
     CONNECTION_CLOSE,
     USER_AGENT_ \o PLATFORM \o <<")">> \o CRLF,
     ACCEPT_ENCODING_ \o AcceptEncoding \o CRLF >>

\* lines 50-55: the buffers given to sock.send, in order
RequestLines ==
  << GET_ \o path \o HTTP11_EOL,
     HOST_ \o host \o CRLF,
     CONNECTION_CLOSE,
     USER_AGENT_ \o PLATFORM \o <<")">> \o CRLF,
     ACCEPT_ENCODING_ \o AcceptEncoding \o CRLF,
     CRLF >>

\* one sock.send of lines 50-55; a blocking send writes its whole buffer or
\* raises
Send ==
  /\ pc = "send"
  /\ UNCHANGED <<inVars, urlVars, respVars>>
  /\ UNCHANGED <<sni, peer, stream, srvBody, pos>>
  /\ \E ok \in BOOLEAN :
       IF ok
       THEN /\ sent' = Append(sent, RequestLines[Len(sent) + 1])
            /\ Goto(IF Len(sent) + 1 = Len(RequestLines) THEN "makefile" ELSE "send")
            /\ UNCHANGED netVars
       ELSE Raise("OSError", <<>>) /\ UNCHANGED sent

\* line 58: the reader over whatever the server sends
MakeFile ==
  /\ pc = "makefile"
  /\ UNCHANGED <<inVars, urlVars, respVars, sock, ssock>>
  /\ UNCHANGED <<sni, peer, sent>>
  /\ response' = "open"
  /\ \E r \in Responses : stream' = r.bytes /\ srvBody' = r.body
  /\ pos' = 1
  /\ Goto("status")

\* BufferedReader.readline(): through the next LF, or to the end of the stream
Readline(s, p) ==
  LET rest == SubSeq(s, p, Len(s))
      i == Find(rest, LF)
  IN  IF i = 0 THEN rest ELSE SubSeq(rest, 1, i)

\* BufferedReader.read(n): n bytes, fewer when the stream ends first
ReadN(s, p, n) == SubSeq(s, p, IF p + n - 1 < Len(s) THEN p + n - 1 ELSE Len(s))

\* BufferedReader.read(): every byte up to the close of the stream
ReadAll(s, p) == SubSeq(s, p, Len(s))

\* a status check that lets every 2xx through
StatusIs2xx(status) == status # <<>> /\ status[1] = "2"

\* line 65: status == "200"
StatusOk(status) == status = STATUS_200

\* lines 60-65
ReadStatus ==
  /\ pc = "status"
  /\ UNCHANGED <<inVars, urlVars, respVars>>
  /\ UNCHANGED <<sni, peer, stream, srvBody, sent>>
  /\ LET line == Readline(stream, pos)
         parts == Split2(line, " ")
     IN  /\ pos' = pos + Len(line)
         /\ IF ~Utf8Ok(line) THEN Raise("UnicodeDecodeError", <<>>)
            ELSE IF Len(parts) # 3 THEN Raise("ValueError", <<>>)
            ELSE IF ~StatusOk(parts[2])
            THEN Raise("AssertionError", parts[2] \o <<":", " ">> \o parts[3])
            ELSE Goto("headers") /\ UNCHANGED netVars

\* headers[key] = value
Put(h, key, value) ==
  [k \in (DOMAIN h) \cup {key} |-> IF k = key THEN value ELSE h[k]]

\* a header loop that takes a line with no ':' as a name with an empty value
ReadHeaderLenient ==
  /\ pc = "headers"
  /\ UNCHANGED <<inVars, urlVars, ret, body, calls>>
  /\ UNCHANGED <<sni, peer, stream, srvBody, sent>>
  /\ LET line == Readline(stream, pos)
         parts == Split1(line, ":")
     IN  /\ pos' = pos + Len(line)
         /\ IF ~Utf8Ok(line)
            THEN Raise("UnicodeDecodeError", <<>>) /\ UNCHANGED <<hlines, headers>>
            ELSE IF line = CRLF
            THEN Goto("body") /\ UNCHANGED <<netVars, hlines, headers>>
            ELSE /\ headers' = Put(headers, Lower(parts[1]),
                                   IF Len(parts) = 2 THEN Strip(parts[2]) ELSE <<>>)
                 /\ hlines' = Append(hlines, line)
                 /\ Goto("headers") /\ UNCHANGED netVars

\* lines 69-74: one turn of the header loop
ReadHeader ==
  /\ pc = "headers"
  /\ UNCHANGED <<inVars, urlVars, ret, body, calls>>
  /\ UNCHANGED <<sni, peer, stream, srvBody, sent>>
  /\ LET line == Readline(stream, pos)
         parts == Split1(line, ":")
     IN  /\ pos' = pos + Len(line)
         /\ IF ~Utf8Ok(line)
            THEN Raise("UnicodeDecodeError", <<>>) /\ UNCHANGED <<hlines, headers>>
            ELSE IF line = CRLF
            THEN Goto("body") /\ UNCHANGED <<netVars, hlines, headers>>
            ELSE IF Len(parts) # 2
            THEN Raise("ValueError", <<>>) /\ UNCHANGED <<hlines, headers>>
            ELSE /\ headers' = Put(headers, Lower(parts[1]), Strip(parts[2]))
                 /\ hlines' = Append(hlines, line)
                 /\ Goto("headers") /\ UNCHANGED netVars

\* lines 76-83: the framing of the body
ReadBody ==
  /\ pc = "body"
  /\ UNCHANGED <<inVars, urlVars, hlines, headers, calls>>
  /\ UNCHANGED <<sni, peer, stream, srvBody, sent>>
  /\ IF TE_KEY \in DOMAIN headers
     THEN IF headers[TE_KEY] = CHUNKED
          THEN /\ ret' = <<>>
               /\ Goto("chunk") /\ UNCHANGED <<netVars, pos, body>>
          ELSE Raise("RuntimeError", <<>>) /\ UNCHANGED <<pos, ret, body>>
     ELSE /\ body' = ReadAll(stream, pos)
          /\ pos' = Len(stream) + 1
          /\ Goto("decompress") /\ UNCHANGED <<netVars, ret>>

\* the delimiter after the chunk data left in the stream
NoDelimiter(s, p) == <<>>

\* line 107: response.read(2), the bytes dropped after the chunk data
Delimiter(s, p) == ReadN(s, p, 2)

\* lines 97-108: one turn of the loop of unchunked
ReadChunk ==
  /\ pc = "chunk"
  /\ UNCHANGED <<inVars, urlVars, hlines, headers>>
  /\ UNCHANGED <<sni, peer, stream, srvBody, sent>>
  /\ LET line == Readline(stream, pos)
         size == RStrip(line)
         after == pos + Len(line)
     IN  IF ~IsInt(size, 16)
         THEN /\ pos' = after
              /\ Raise("ValueError", <<>>) /\ UNCHANGED <<ret, body, calls>>
         ELSE IF ToInt(size, 16) = 0
         THEN /\ pos' = after
              /\ body' = ret
              /\ calls' = Append(calls, [op |-> "unchunked", bytes |-> ret])
              /\ Goto("decompress") /\ UNCHANGED <<netVars, ret>>
         ELSE LET data == ReadN(stream, after, ToInt(size, 16))
                  delim == Delimiter(stream, after + Len(data))
              IN  /\ ret' = ret \o data
                  /\ pos' = after + Len(data) + Len(delim)
                  /\ Goto("chunk") /\ UNCHANGED <<netVars, body, calls>>

Failed(kind) == [ok |-> FALSE, out |-> <<>>, kind |-> kind]
Decoded(out) == [ok |-> TRUE, out |-> out, kind |-> "none"]

\* a decoder that hands back the bytes of an encoding it does not know
decompressPassthrough(data, encoding) ==
  IF encoding = GZIP
  THEN IF GzipOk(data) THEN Decoded(GzipDecompress(data)) ELSE Failed("BadGzipFile")
  ELSE IF encoding = DEFLATE
  THEN IF DeflateOk(data) THEN Decoded(DeflateDecompress(data)) ELSE Failed("zlib.error")
  ELSE IF encoding = BR
  THEN IF ~brotli THEN Failed("RuntimeError")
       ELSE IF BrotliOk(data) THEN Decoded(BrotliDecompress(data))
       ELSE Failed("brotli.error")
  ELSE Decoded(data)

\* lines 111-123
decompress(data, encoding) ==
  IF encoding = GZIP
  THEN IF GzipOk(data) THEN Decoded(GzipDecompress(data)) ELSE Failed("BadGzipFile")
  ELSE IF encoding = DEFLATE
  THEN IF DeflateOk(data) THEN Decoded(DeflateDecompress(data)) ELSE Failed("zlib.error")
  ELSE IF encoding = BR
  THEN IF ~brotli THEN Failed("RuntimeError")
       ELSE IF BrotliOk(data) THEN Decoded(BrotliDecompress(data))
       ELSE Failed("brotli.error")
  ELSE IF encoding = IDENTITY
  THEN Decoded(data)
  ELSE Failed("RuntimeError")

\* the content decoder given the bytes still in their chunk framing
FramedBody == srvBody

\* line 87: the bytes given to decompress
DecompressArg == body

\* lines 85-87
Decompress ==
  /\ pc = "decompress"
  /\ UNCHANGED <<inVars, urlVars, ioVars, hlines, headers, ret>>
  /\ IF CE_KEY \in DOMAIN headers
     THEN LET r == decompress(DecompressArg, headers[CE_KEY])
          IN  /\ calls' = Append(calls, [op |-> "decompress", bytes |-> DecompressArg])
              /\ IF r.ok
                 THEN body' = r.out /\ Goto("decode") /\ UNCHANGED netVars
                 ELSE Raise(r.kind, <<>>) /\ UNCHANGED body
     ELSE Goto("decode") /\ UNCHANGED <<netVars, body, calls>>

\* lines 89-91: body.decode(), then the return of the pair
DecodeAndReturn ==
  /\ pc = "decode"
  /\ UNCHANGED <<inVars, urlVars, ioVars, hlines, headers, ret, body>>
  /\ calls' = Append(calls, [op |-> "decode", bytes |-> body])
  /\ IF Utf8Ok(body)
     THEN Return(headers, body)
     ELSE Raise("UnicodeDecodeError", <<>>)

Next ==
  \/ ParseScheme
  \/ ParseHost
  \/ ParsePort
  \/ CreateSocket
  \/ WrapSocket
  \/ Connect
  \/ Send
  \/ MakeFile
  \/ ReadStatus
  \/ ReadHeader
  \/ ReadBody
  \/ ReadChunk
  \/ Decompress
  \/ DecodeAndReturn

Spec == Init /\ [][Next]_vars

TypeOK ==
  /\ pc \in {"start", "parse_host", "parse_port", "socket", "wrap", "connect",
             "send", "makefile", "status", "headers", "body", "chunk",
             "decompress", "decode", "returned", "raised"}
  /\ sock \in {"none", "created", "connected", "closed"}
  /\ ssock \in {"none", "created", "connected", "closed"}
  /\ response \in {"none", "open", "closed"}
  /\ pos \in 1..(Len(stream) + 1)

\* ------------------------------------------------------------------------
\* lex(body), lines 126-148
\* ------------------------------------------------------------------------
MaxTokens == 3

BODY == <<"b", "o", "d", "y">>
SLASH_BODY == <<"/">> \o BODY

\* the pieces the inputs of lex are put together from
LexTokens ==
  { <<"<">> \o BODY, <<"<">> \o BODY \o <<">">>,
    <<"<">> \o SLASH_BODY \o <<">">>,
    <<"<", " ">> \o SLASH_BODY \o <<" ", ">">>,
    <<"<", "/", "B", "O", "D", "Y", ">">>,
    <<">">>, <<"<">>, <<"x">>, <<" ", "k">>, <<LF>> }

\* line 31 of the tests: "<body key=value> test </BODY>"
TestLexOrigin ==
  <<"<">> \o BODY \o <<" ", "k", "e", "y", "=", "v", "a", "l", "u", "e", ">",
    " ", "t", "e", "s", "t", " ", "<", "/", "B", "O", "D", "Y", ">">>

LexOrigins ==
  {Flatten(ts) : ts \in SeqsUpTo(LexTokens, MaxTokens)}
  \cup {TestLexOrigin,
        <<"p">> \o TestLexOrigin \o <<"<">> \o SLASH_BODY \o <<">", "q">>}

\* s has the word w at position i
WordAt(s, i, w) == i + Len(w) - 1 <= Len(s) /\ SubSeq(s, i, i + Len(w) - 1) = w

\* \s* from position i: the first position at or after i that holds no space
RECURSIVE SkipSpaces(_, _)
SkipSpaces(s, i) ==
  IF i <= Len(s) /\ IsSpace(s[i]) THEN SkipSpaces(s, i + 1) ELSE i

\* <\s*body at position i: the position after it, 0 when it is not there
OpenEnd(s, i) ==
  IF s[i] = "<" /\ WordAt(s, SkipSpaces(s, i + 1), BODY)
  THEN SkipSpaces(s, i + 1) + Len(BODY)
  ELSE 0

\* <\s*\/body\s?> at position i: the position of its '>', 0 when it is not there
CloseEnd(s, i) ==
  LET j == SkipSpaces(s, i + 1)
      k == j + Len(SLASH_BODY)
  IN  IF s[i] = "<" /\ WordAt(s, j, SLASH_BODY)
      THEN IF k <= Len(s) /\ s[k] = ">" THEN k
           ELSE IF k + 1 <= Len(s) /\ IsSpace(s[k]) /\ s[k + 1] = ">" THEN k + 1
           ELSE 0
      ELSE 0

\* .*?> from position e: the positions of a '>' with no line feed before it
\* back to e, and with a closing tag somewhere after it
TagEnds(s, e) ==
  {g \in e..Len(s) :
     /\ s[g] = ">"
     /\ \A k \in e..(g - 1) : s[k] # LF
     /\ \E c \in (g + 1)..Len(s) : CloseEnd(s, c) # 0}

\* the positions where the pattern of line 131 matches
MatchStarts(s) ==
  {i \in 1..Len(s) : OpenEnd(s, i) # 0 /\ TagEnds(s, OpenEnd(s, i)) # {}}

Least(S) == CHOOSE i \in S : \A j \in S : i <= j
Greatest(S) == CHOOSE i \in S : \A j \in S : i >= j

\* lines 128-135: re.search takes the leftmost match, .*? the nearest '>' and
\* [\s\S]* the farthest closing tag; m.group() is the whole match, tags included
get_body(s) ==
  IF MatchStarts(s) = {} THEN s
  ELSE LET i == Least(MatchStarts(s))
           g == Least(TagEnds(s, OpenEnd(s, i)))
           c == Greatest({k \in (g + 1)..Len(s) : CloseEnd(s, k) # 0})
       IN  SubSeq(s, i, CloseEnd(s, c))

\* a turn of the loop in which '>' does not end a tag
lexCharNoReset(c, in_angle) ==
  IF c = "<" THEN [text |-> <<>>, in_angle |-> TRUE]
  ELSE IF c = ">" THEN [text |-> <<>>, in_angle |-> in_angle]
  ELSE IF ~in_angle THEN [text |-> <<c>>, in_angle |-> in_angle]
  ELSE [text |-> <<>>, in_angle |-> in_angle]

\* lines 142-147: one turn of the loop, what it adds to text and in_angle after it
lexChar(c, in_angle) ==
  IF c = "<" THEN [text |-> <<>>, in_angle |-> TRUE]
  ELSE IF c = ">" THEN [text |-> <<>>, in_angle |-> FALSE]
  ELSE IF ~in_angle THEN [text |-> <<c>>, in_angle |-> in_angle]
  ELSE [text |-> <<>>, in_angle |-> in_angle]

\* lines 139-147: the turns of the loop for b[lo..hi], taken in order, the
\* range being cut in two to keep the evaluation shallow
RECURSIVE lexLoop(_, _, _, _)
lexLoop(b, lo, hi, in_angle) ==
  IF lo > hi THEN [text |-> <<>>, in_angle |-> in_angle]
  ELSE IF lo = hi THEN lexChar(b[lo], in_angle)
  ELSE LET mid == (lo + hi) \div 2
           left == lexLoop(b, lo, mid, in_angle)
           right == lexLoop(b, mid + 1, hi, left.in_angle)
       IN  [text |-> left.text \o right.text, in_angle |-> right.in_angle]

\* lines 126-148
lex(b) ==
  LET selected == get_body(b)
  IN  lexLoop(selected, 1, Len(selected), FALSE).text

\* a call of lex
Lex ==
  /\ ~lexed
  /\ text' = lex(origin)
  /\ lexed' = TRUE
  /\ UNCHANGED <<arg, brotli, guiVars, origin>>
  /\ UNCHANGED <<pc, urlVars, netVars, ioVars, respVars, outVars>>

InitLex ==
  /\ arg = <<>>
  /\ brotli \in BOOLEAN
  /\ Fresh /\ GuiNew
  /\ origin \in LexOrigins
  /\ text = <<>> /\ lexed = FALSE

NextLex == Lex

LexSpec == InitLex /\ [][NextLex]_vars

\* ------------------------------------------------------------------------
\* graphics.Browser
\* ------------------------------------------------------------------------
WIDTH == 800
HEIGHT == 600
HSTEP == 13
VSTEP == 18
SCROLL_STEP == 100

MaxLines == 12

\* a line long enough to wrap at the right edge of the window
LongLine == [i \in 1..61 |-> "a"]

\* the page bodies loaded: n line feeds, then nothing, a character or a tagged
\* character; and the long line
GuiBodies ==
  {[i \in 1..n |-> LF] \o tail :
     n \in 0..MaxLines, tail \in {<<>>, <<"a">>, <<"<", "b", ">", "a">>}}
  \cup {LongLine}

GuiURLs == {DataURL(<<"t", "/", "h">>, b) : b \in GuiBodies}

Max2(a, b) == IF a >= b THEN a ELSE b
Min2(a, b) == IF a <= b THEN a ELSE b

\* lines 42-49: what render leaves on the canvas
Render(dl, sc) ==
  {<<dl[i][1], dl[i][2] - sc, dl[i][3]>> :
     i \in {j \in 1..Len(dl) :
              ~(dl[j][2] > sc + HEIGHT) /\ ~(dl[j][2] + VSTEP < sc)}}

\* a scroll position taken as it comes
NoClamp(s) == s

\* lines 53 and 68: min(self.max_scroll, self.scroll)
ClampMax(s) == Min2(max_scroll, s)

\* lines 58 and 64: max(self.scroll, self.min_scroll)
ClampMin(s) == Max2(s, min_scroll)

httpVars == <<arg, brotli, pc, urlVars, netVars, ioVars, respVars, outVars>>

\* lines 24-27 and 31-32, once http.request has returned the pair: lex, and
\* the start of layout
Load ==
  /\ pc = "returned" /\ gpc = "new"
  /\ origin' = result.body
  /\ text' = lex(result.body)
  /\ lexed' = TRUE
  /\ display_list' = <<>>
  /\ cursor_x' = HSTEP /\ cursor_y' = VSTEP
  /\ gpc' = "layout"
  /\ UNCHANGED <<scroll, min_scroll, max_scroll, canvas, event, httpVars>>

\* lines 33-39: one turn of the loop of layout
LayoutChar ==
  /\ gpc = "layout" /\ Len(display_list) < Len(text)
  /\ LET c == text[Len(display_list) + 1]
     IN  /\ max_scroll' = Max2(max_scroll, cursor_y)
         /\ display_list' = Append(display_list, <<cursor_x, cursor_y, c>>)
         /\ IF cursor_x + HSTEP >= WIDTH - HSTEP \/ c = LF
            THEN cursor_y' = cursor_y + VSTEP /\ cursor_x' = HSTEP
            ELSE cursor_x' = cursor_x + HSTEP /\ cursor_y' = cursor_y
  /\ UNCHANGED <<gpc, scroll, min_scroll, canvas, event, lexVars, httpVars>>

\* lines 40 and 27-28: layout returns the list, load renders it and returns
LayoutReturn ==
  /\ gpc = "layout" /\ Len(display_list) = Len(text)
  /\ canvas' = Render(display_list, scroll)
  /\ gpc' = "events"
  /\ UNCHANGED <<cursor_x, cursor_y, scroll, min_scroll, max_scroll, display_list,
                 event, lexVars, httpVars>>

\* what an event handler leaves as it is
Kept == <<gpc, cursor_x, cursor_y, min_scroll, max_scroll, display_list, lexVars, httpVars>>

\* lines 51-54
ScrollDown ==
  /\ gpc = "events"
  /\ scroll' = ClampMax(scroll + SCROLL_STEP)
  /\ canvas' = Render(display_list, scroll')
  /\ event' = "Down"
  /\ UNCHANGED Kept

\* lines 56-59
ScrollUp ==
  /\ gpc = "events"
  /\ scroll' = ClampMin(scroll - SCROLL_STEP)
  /\ canvas' = Render(display_list, scroll')
  /\ event' = "Up"
  /\ UNCHANGED Kept

\* lines 61-69
MouseWheel ==
  /\ gpc = "events"
  /\ \E delta \in {-1, 0, 1} :
       IF delta > 0
       THEN /\ scroll' = ClampMin(scroll - SCROLL_STEP)
            /\ canvas' = Render(display_list, scroll')
            /\ event' = "WheelUp"
       ELSE IF delta < 0
       THEN /\ scroll' = ClampMax(scroll + SCROLL_STEP)
            /\ canvas' = Render(display_list, scroll')
            /\ event' = "WheelDown"
       ELSE /\ event' = "WheelStill"
            /\ UNCHANGED <<scroll, canvas>>
  /\ UNCHANGED Kept

\* lines 75-76: Browser().load(url) with a data URL, then the event loop
InitGui ==
  /\ arg \in GuiURLs
  /\ brotli \in BOOLEAN
  /\ LexIdle /\ GuiNew
  /\ Fresh

NextGui ==
  \/ ParseScheme
  \/ Load
  \/ LayoutChar
  \/ LayoutReturn
  \/ ScrollDown
  \/ ScrollUp
  \/ MouseWheel

GuiSpec == InitGui /\ [][NextGui]_vars

\* ------------------------------------------------------------------------
\* Properties
\* ------------------------------------------------------------------------
Done == pc \in {"returned", "raised"}

\* no socket, wrapper or reader was created, connected, written to or read
NoNetwork ==
  /\ sock = "none" /\ ssock = "none" /\ response = "none"
  /\ sni = <<>> /\ peer = <<>> /\ sent = <<>>
  /\ stream = <<>> /\ pos = 1

\* s begins with p
IsPrefix(p, s) == Len(p) <= Len(s) /\ SubSeq(s, 1, Len(p)) = p

\* C1: for every URL data:<content-type>,<payload>, with ',' and ':' allowed
\* in the payload, request returns the one-entry header map
\* {content-type: <content-type>} and the payload verbatim as the body, and
\* no socket is created, connected, written to or read from.
C1_DataRequest ==
  \A ct \in ContentTypes, p \in Payloads :
    (arg = DataURL(ct, p) /\ pc # "start") =>
      /\ pc = "returned"
      /\ result = [headers |-> (CT_KEY :> ct), body |-> p]
      /\ NoNetwork

C1_Witness ==
  /\ pc = "returned"
  /\ arg = DataURL(<<"t", "/", "h">>, <<",", ":">>)
  /\ result.body = <<",", ":">>

\* the status token of the first line on the stream, as a server wrote it
StatusToken ==
  LET parts == Split2(Readline(stream, 1), " ")
  IN  IF Len(parts) >= 2 THEN Strip(parts[2]) ELSE <<>>

ErrorStatuses ==
  { [code |-> <<"4", "0", "4">>, reason |-> NotFound],
    [code |-> <<"3", "0", "1">>, reason |-> Moved],
    [code |-> <<"2", "0", "4">>, reason |-> <<>>] }

C3_NoPathParses ==
  \A sch \in {HTTP, HTTPS} :
    (arg = NetURL(sch, HostEx, <<>>, <<>>) /\ pc \notin {"start", "parse_host"}) =>
      /\ path = <<"/">>
      /\ host = HostEx
      /\ err.kind # "ValueError"

\* the port a URL of NetURLs names: the explicit one, or the scheme's default
ExpectedPort(sch, sfx) ==
  IF sfx = <<":", "8", "0", "8", "0">> THEN 8080
  ELSE IF sch = HTTP THEN 80 ELSE 443

\* C4: for every http/https URL with a path, connect is given the host
\* without its ':port' suffix and the explicit base-10 port when there is
\* one, otherwise 80 for http and 443 for https; the Host header and the TLS
\* server name are that host without the port.
C4_PortAndHost ==
  \A sch \in {HTTP, HTTPS}, sfx \in {<<>>, <<":", "8", "0", "8", "0">>},
     p \in Paths \ {<<>>} :
    (arg = NetURL(sch, HostEx, sfx, p) /\ pc \notin {"start", "parse_host", "parse_port"}) =>
      /\ host = HostEx /\ path = p /\ port = ExpectedPort(sch, sfx)
      /\ err.kind # "ValueError" \/ response # "none"
      /\ peer # <<>> => peer = <<HostEx, ExpectedPort(sch, sfx)>>
      /\ ssock # "none" => sni = HostEx
      /\ Len(sent) >= 2 => sent[2] = HOST_ \o HostEx \o CRLF

C4_Witness ==
  /\ arg = NetURL(HTTPS, HostEx, <<":", "8", "0", "8", "0">>, <<"/", "x", ":", "y">>)
  /\ peer = <<HostEx, 8080>>
  /\ sni = HostEx
  /\ Len(sent) >= 2 /\ sent[2] = HOST_ \o HostEx \o CRLF

\* the name and the value of a header line "Name:value\r\n" as it is on the wire
NameOf(line) == SubSeq(line, 1, Find(line, ":") - 1)
ValueOf(line) == SubSeq(line, Find(line, ":") + 1, Len(line))

IsUpper(c) == \E j \in 1..26 : UPPER[j] = c

\* k is n with every upper-case letter replaced by its lower-case letter
FoldsTo(k, n) ==
  /\ Len(k) = Len(n)
  /\ \A i \in 1..Len(n) :
       IF IsUpper(n[i]) THEN \E j \in 1..26 : UPPER[j] = n[i] /\ LOWERS[j] = k[i]
       ELSE k[i] = n[i]

\* two header names equal up to the case of their letters
SameName(a, b) ==
  /\ Len(a) = Len(b)
  /\ \A i \in 1..Len(a) :
       a[i] = b[i] \/ \E j \in 1..26 : {a[i], b[i]} = {UPPER[j], LOWERS[j]}

\* v is raw without its leading and trailing whitespace
IsStripOf(v, raw) ==
  /\ v = <<>> \/ (~IsSpace(v[1]) /\ ~IsSpace(v[Len(v)]))
  /\ \E a \in 0..Len(raw) :
       /\ a + Len(v) <= Len(raw)
       /\ SubSeq(raw, a + 1, a + Len(v)) = v
       /\ \A i \in 1..Len(raw) : (i <= a \/ i > a + Len(v)) => IsSpace(raw[i])

\* the last header line read whose name is that of line i, whatever the case
LastOf(i) ==
  CHOOSE j \in i..Len(hlines) :
    /\ SameName(NameOf(hlines[j]), NameOf(hlines[i]))
    /\ \A l \in (j + 1)..Len(hlines) :
         ~SameName(NameOf(hlines[l]), NameOf(hlines[i]))

LowerKeys(h) == \A k \in DOMAIN h : \A i \in 1..Len(k) : ~IsUpper(k[i])

\* C5 as claimed: in the returned header map every key is lower case, and
\* for each header line "Name: value\r\n" read before the blank line the map
\* holds key lower(Name) with the stripped value of that line.
C5_EveryLineHeld ==
  pc = "returned" =>
    /\ LowerKeys(result.headers)
    /\ \A i \in 1..Len(hlines) :
         \E k \in DOMAIN result.headers :
           /\ FoldsTo(k, NameOf(hlines[i]))
           /\ IsStripOf(result.headers[k], ValueOf(hlines[i]))

\* C5 as amended: in the returned header map every key is lower case, and
\* for each header line "Name: value\r\n" read before the blank line the map
\* holds key lower(Name) with the stripped value of the last header line
\* whose name is Name up to case; the map holds no other key.
C5_LastLineHeld ==
  pc = "returned" =>
    /\ LowerKeys(result.headers)
    /\ \A i \in 1..Len(hlines) :
         \E k \in DOMAIN result.headers :
           /\ FoldsTo(k, NameOf(hlines[i]))
           /\ IsStripOf(result.headers[k], ValueOf(hlines[LastOf(i)]))
    /\ response # "none" =>
         \A k \in DOMAIN result.headers :
           \E i \in 1..Len(hlines) : FoldsTo(k, NameOf(hlines[i]))

C5_Witness ==
  /\ pc = "returned"
  /\ hlines = << HeaderLine(<<"X", "-", "A">>, <<" ", "v">>),
                 HeaderLine(<<"x", "-", "a">>, <<"w", " ">>) >>
  /\ result.headers = (<<"x", "-", "a">> :> <<"w">>)

\* number of bytes of the stream before the body
HeadLen == Len(stream) - Len(srvBody)

Chunked == TE_KEY \in DOMAIN headers /\ headers[TE_KEY] = CHUNKED

\* C6: for every payload cut into non-empty chunks and sent as
\* <hex size>\r\n<data>\r\n ... 0\r\n\r\n, unchunked returns the chunks' data
\* once each and in order, and stops after the size line 0: the bytes after
\* that line are left unread.
C6_ChunkedRoundTrip ==
  \A cs \in ChunkSeqs, w \in PadWidths :
    (Chunked /\ srvBody = EncodeChunked(cs, w) /\ pos > HeadLen + 1 /\ pc # "chunk") =>
      /\ Len(calls) >= 1
      /\ calls[1] = [op |-> "unchunked", bytes |-> Flatten(cs)]
      /\ pos = Len(stream) - 1
      /\ pc = "returned" => result.body = Flatten(cs)

C6_Witness ==
  /\ pc = "returned"
  /\ srvBody = EncodeChunked(<<LongChunk, <<"b", CR, LF>>>>, 2)
  /\ result.body = LongChunk \o <<"b", CR, LF>>
  /\ pos = Len(stream) - 1

\* the positions in calls of the runs of one operation
Ops(name) == {i \in 1..Len(calls) : calls[i].op = name}

\* C7: the chunk framing is removed first, the content decoder runs once, on
\* the fully reassembled bytes and never on the chunk stream or on a single
\* chunk, and the text is decoded only after both layers.
C7_LayerOrder ==
  /\ Cardinality(Ops("unchunked")) <= 1
  /\ Cardinality(Ops("decompress")) <= 1
  /\ Cardinality(Ops("decode")) <= 1
  /\ \A i \in Ops("decompress") :
       IF Chunked
       THEN i = 2 /\ calls[1].op = "unchunked" /\ calls[2].bytes = calls[1].bytes
       ELSE i = 1
  /\ \A i \in Ops("decode") :
       /\ i = Len(calls)
       /\ Chunked => calls[1].op = "unchunked"
       /\ (CE_KEY \in DOMAIN headers) => (i >= 2 /\ calls[i - 1].op = "decompress")
  /\ \A b \in EncodedBodies :
       \A cs \in Splits(b) :
         (Chunked /\ srvBody = EncodeChunked(cs, 1) /\ Ops("decompress") # {}) =>
           calls[2].bytes = b

C7_Witness ==
  /\ pc = "returned"
  /\ Chunked
  /\ CE_KEY \in DOMAIN headers
  /\ headers[CE_KEY] = GZIP
  /\ srvBody = EncodeChunked(<< <<"G">>, <<"b", "a">> >>, 1)
  /\ calls[2] = [op |-> "decompress", bytes |-> <<"G", "b", "a">>]
  /\ result.body = Text

\* Accept-Encoding as the runtime offers it
OfferedEncodings ==
  IF brotli THEN <<"g", "z", "i", "p", ",", "d", "e", "f", "l", "a", "t", "e", ",", "b", "r">>
  ELSE <<"g", "z", "i", "p", ",", "d", "e", "f", "l", "a", "t", "e">>

\* C8 as claimed: the bytes written are the request line, Host,
\* Accept-Encoding, "Connection: close" and the blank line, in this order and
\* with nothing else.
C8_ClaimedOrder ==
  response # "none" =>
    Flatten(sent) = GET_ \o path \o HTTP11_EOL
                    \o HOST_ \o host \o CRLF
                    \o ACCEPT_ENCODING_ \o OfferedEncodings \o CRLF
                    \o CONNECTION_CLOSE
                    \o CRLF

WrittenOrder ==
  << GET_ \o path \o HTTP11_EOL,
     HOST_ \o host \o CRLF,
     <<"C", "o", "n", "n", "e", "c", "t", "i", "o", "n", ":", " ",
       "c", "l", "o", "s", "e", CR, LF>>,
     USER_AGENT_ \o <<"l", "i", "n", "u", "x", ")", CR, LF>>,
     ACCEPT_ENCODING_ \o OfferedEncodings \o CRLF,
     CRLF >>

\* C8 as amended: the writes are, in this order and with nothing else, the
\* request line, Host, "Connection: close", "User-Agent: Mozilla/5.0
\* (<platform>)", Accept-Encoding and the blank line; a failed write leaves a
\* prefix of them; the blank line is the last write and no body follows.
C8_WrittenOrder ==
  /\ Len(sent) <= Len(WrittenOrder)
  /\ \A i \in 1..Len(sent) : sent[i] = WrittenOrder[i]
  /\ response # "none" => (sent = WrittenOrder /\ sent[Len(sent)] = CRLF)

C8_Witness ==
  /\ pc = "returned"
  /\ brotli
  /\ response = "closed"
  /\ Len(sent) = 6
  /\ sent[5] = ACCEPT_ENCODING_ \o OfferedEncodings \o CRLF
  /\ sent[6] = CRLF

\* C9: on every exit of request, return or raise, no socket, TLS wrapper or
\* response reader is left open: each one that was created is closed.
C9_AllClosed ==
  Done =>
    /\ sock \in {"none", "closed"}
    /\ ssock \in {"none", "closed"}
    /\ response \in {"none", "closed"}
    /\ peer # <<>> => (sock = "closed" /\ (scheme = HTTPS => ssock = "closed"))
    /\ Len(sent) = Len(WrittenOrder) => response = "closed"

C9_Witness ==
  /\ pc = "raised"
  /\ scheme = HTTPS
  /\ err.kind = "BadGzipFile"
  /\ sock = "closed" /\ ssock = "closed" /\ response = "closed"

\* C10: with no transfer-encoding header and a content-length header of
\* value N, the raw body handed to content decoding is exactly the N bytes
\* after the blank line; with neither header it is every byte up to the close
\* of the stream.
C10_ContentLength ==
  (pc = "decompress" /\ TE_KEY \notin DOMAIN headers) =>
    IF CL_KEY \in DOMAIN headers /\ IsInt(headers[CL_KEY], 10)
    THEN body = ReadN(srvBody, 1, ToInt(headers[CL_KEY], 10))
    ELSE body = srvBody

\* C11: when the server answers the first request with a 3xx redirect, the
\* call returns a header map containing content-type and a non-empty body:
\* the redirect is followed, the call does not fail.
C11_RedirectFollowed ==
  (Done /\ response # "none"
   /\ IsPrefix(StatusLine(<<"3", "0", "1">>, Moved), stream)) =>
    /\ pc = "returned"
    /\ CT_KEY \in DOMAIN result.headers
    /\ result.body # <<>>

\* the body as it stands after the transfer layer, before any content decoding
RawBody == IF Chunked THEN calls[1].bytes ELSE srvBody

KnownEncodings == {GZIP, DEFLATE, BR, IDENTITY}

\* C12: a content-encoding value other than gzip, deflate, br and identity
\* makes the call fail with an error and no body; the raw bytes are returned
\* undecoded only when content-encoding is absent or is exactly identity, and
\* then they are unchanged.
C12_UnknownEncodingFails ==
  /\ (CE_KEY \in DOMAIN headers /\ headers[CE_KEY] \notin KnownEncodings) =>
       /\ pc \notin {"decode", "returned"}
       /\ result.body = <<>>
       /\ Done => (pc = "raised" /\ err.kind # "none")
  /\ (pc = "returned" /\ response # "none") =>
       IF CE_KEY \notin DOMAIN headers \/ headers[CE_KEY] = IDENTITY
       THEN result.body = RawBody
       ELSE /\ headers[CE_KEY] \in {GZIP, DEFLATE, BR}
            /\ result.body # RawBody
            /\ result.body =
                 IF headers[CE_KEY] = GZIP THEN GzipDecompress(RawBody)
                 ELSE IF headers[CE_KEY] = DEFLATE THEN DeflateDecompress(RawBody)
                 ELSE BrotliDecompress(RawBody)

C12_Witness ==
  /\ pc = "raised" /\ err.kind = "RuntimeError"
  /\ calls # <<>> /\ calls[Len(calls)].op = "decompress"
  /\ CE_KEY \in DOMAIN headers /\ headers[CE_KEY] = ZSTD

\* the text of u before its first ':'
SchemeOf(u) == SubSeq(u, 1, Find(u, ":") - 1)

\* the text of u after its first ':' and after a leading "//", up to the first '/'
AuthorityOf(u) ==
  LET rest == SubSeq(u, Find(u, ":") + 1, Len(u))
      r == IF IsPrefix(<<"/", "/">>, rest) THEN SubSeq(rest, 3, Len(rest)) ELSE rest
  IN  SubSeq(r, 1, Find(r, "/") - 1)

HasChar(s, c) == \E i \in 1..Len(s) : s[i] = c

AllDigits(s) == s # <<>> /\ \A i \in 1..Len(s) : \E d \in 1..10 : DIGITS[d] = s[i]

\* a URL the scheme check refuses: no ':' at all, or a scheme not in the list
Rejected(u) == ~HasChar(u, ":") \/ SchemeOf(u) \notin {HTTP, HTTPS, DATA}

\* a URL that cannot be parsed: refused, or a data URL with no ',', or a
\* network URL with no '/' after the host or with a port that is no number
Unparseable(u) ==
  \/ Rejected(u)
  \/ SchemeOf(u) = DATA /\ ~HasChar(SubSeq(u, Find(u, ":") + 1, Len(u)), ",")
  \/ /\ SchemeOf(u) \in {HTTP, HTTPS}
     /\ LET rest == SubSeq(u, Find(u, ":") + 1, Len(u))
            r == IF IsPrefix(<<"/", "/">>, rest) THEN SubSeq(rest, 3, Len(rest)) ELSE rest
        IN  \/ ~HasChar(r, "/")
            \/ /\ HasChar(AuthorityOf(u), ":")
               /\ ~AllDigits(SubSeq(AuthorityOf(u), Find(AuthorityOf(u), ":") + 1,
                                    Len(AuthorityOf(u))))

\* C13: every input with no ':' and every URL whose scheme is not http, https
\* or data makes the call fail; in each such case, and for every other URL
\* parsing failure such as a port that is not a number, no socket has been
\* created or connected when the failure is raised.
C13_RejectedBeforeIO ==
  /\ Rejected(arg) => (pc \in {"start", "raised"} /\ result.body = <<>>)
  /\ Unparseable(arg) =>
       /\ NoNetwork
       /\ pc # "returned"
       /\ pc \in {"start", "parse_host", "parse_port", "raised"}
       /\ pc = "raised" => err.kind \in {"ValueError", "AssertionError"}
  /\ (pc = "raised" /\ NoNetwork) => Unparseable(arg)

C13_Witness ==
  /\ pc = "raised" /\ NoNetwork
  /\ arg = NetURL(FTP, HostEx, <<>>, <<"/">>)
  /\ err = [kind |-> "AssertionError", msg |-> UNKNOWN_SCHEME_ \o FTP]

\* the elements of a comma-separated list
RECURSIVE Tokens(_)
Tokens(s) ==
  IF ~HasChar(s, ",") THEN {s}
  ELSE {SubSeq(s, 1, Find(s, ",") - 1)} \cup Tokens(SubSeq(s, Find(s, ",") + 1, Len(s)))

\* the encodings named by the Accept-Encoding header that was written
Advertised ==
  LET line == sent[5]
      value == SubSeq(line, Len(ACCEPT_ENCODING_) + 1, Len(line) - 2)
  IN  Tokens(value)

\* decompress reaches a decoder for the encoding: it does not fail for want of one
Invocable(encoding) ==
  \A d \in EncodedBodies : decompress(d, encoding).kind # "RuntimeError"

\* C14: "br" is in the Accept-Encoding header sent exactly when
\* decompress(data, "br") can invoke a brotli decoder; gzip and deflate are
\* always advertised and always decodable; without brotli a response with
\* content-encoding br fails with the missing-decoder error and is never
\* returned undecoded.
C14_AdvertisedInSync ==
  /\ Len(sent) >= 5 =>
       /\ IsPrefix(ACCEPT_ENCODING_, sent[5])
       /\ BR \in Advertised <=> Invocable(BR)
       /\ BR \in Advertised <=>
            decompress(BrotliCompress(Text), BR) = Decoded(Text)
       /\ GZIP \in Advertised /\ DEFLATE \in Advertised
       /\ Advertised \subseteq {GZIP, DEFLATE, BR}
       /\ decompress(GzipCompress(Text), GZIP) = Decoded(Text)
       /\ decompress(DeflateCompress(Text), DEFLATE) = Decoded(Text)
  /\ (~brotli /\ CE_KEY \in DOMAIN headers /\ headers[CE_KEY] = BR) =>
       /\ pc \notin {"decode", "returned"}
       /\ result.body = <<>>
       /\ Done => (pc = "raised" /\ err.kind = "RuntimeError")

C14_Witness ==
  /\ ~brotli
  /\ Len(sent) = 6 /\ Advertised = {GZIP, DEFLATE}
  /\ CE_KEY \in DOMAIN headers /\ headers[CE_KEY] = BR
  /\ srvBody = BrotliCompress(Text)
  /\ pc = "raised" /\ err.kind = "RuntimeError"

\* the lines of s from position p on, each through its LF and the last one
\* to the end of s, up to and with the first line that is "\r\n" alone
RECURSIVE LinesFrom(_, _)
LinesFrom(s, p) ==
  IF p > Len(s) THEN <<>>
  ELSE LET ends == {i \in p..Len(s) : s[i] = LF}
           e == IF ends = {} THEN Len(s)
                ELSE CHOOSE i \in ends : \A j \in ends : i <= j
           line == SubSeq(s, p, e)
       IN  IF line = CRLF THEN <<line>> ELSE <<line>> \o LinesFrom(s, e + 1)

Spaces(line) == Cardinality({i \in 1..Len(line) : line[i] = " "})

\* the lines ls of a response head are malformed: no status line of three
\* tokens, or a line with no ':' before the blank line, or no blank line
MalformedHead(ls) ==
  \/ ls = <<>>
  \/ Spaces(ls[1]) < 2
  \/ Len(ls) < 2
  \/ ls[Len(ls)] # CRLF
  \/ \E i \in 2..(Len(ls) - 1) : ~HasChar(ls[i], ":")

AfterHead == {"body", "chunk", "decompress", "decode", "returned"}

\* C15: the call fails, returning nothing, whenever the status line cannot be
\* split into three space-separated tokens or a line read before the blank
\* line has no ':'; a body is read only after a well-formed status line and
\* a header block ended by an empty "\r\n" line.
C15_MalformedHeadRejected ==
  response # "none" =>
    LET ls == LinesFrom(stream, 1)
    IN  /\ MalformedHead(ls) =>
             /\ pc \notin AfterHead
             /\ ret = <<>> /\ body = <<>> /\ calls = <<>>
             /\ result = [headers |-> EmptyMap, body |-> <<>>]
             /\ Done => pc = "raised"
        /\ (pc \in AfterHead \/ body # <<>> \/ ret # <<>>) =>
             /\ ~MalformedHead(ls)
             /\ hlines = SubSeq(ls, 2, Len(ls) - 1)
             /\ pos >= Len(Flatten(ls)) + 1

\* a header line with no ':' after a good one
C15_Witness ==
  /\ pc = "raised" /\ err.kind = "ValueError"
  /\ response # "none" /\ calls = <<>>
  /\ hlines # <<>>
  /\ LET ls == LinesFrom(stream, 1)
     IN  Len(ls) > 3 /\ ls[3] = <<"b", "a", "d">> \o CRLF /\ ls[Len(ls)] = CRLF

\* the place of a step of request in the order parse, connect, write, read
\* status and headers, read body, decode
Rank(p) ==
  CASE p = "start" -> 1
    [] p = "parse_host" -> 2
    [] p = "parse_port" -> 3
    [] p = "socket" -> 4
    [] p = "wrap" -> 5
    [] p = "connect" -> 6
    [] p = "send" -> 7
    [] p = "makefile" -> 8
    [] p = "status" -> 9
    [] p = "headers" -> 10
    [] p = "body" -> 11
    [] p = "chunk" -> 12
    [] p = "decompress" -> 13
    [] p = "decode" -> 14
    [] OTHER -> 15

\* the steps that may be taken more than once: one send per request line, one
\* turn of the header loop per header, one turn of the chunk loop per chunk
Loops == {"send", "headers", "chunk"}

\* the number of request lines written
GetCount(s) == Cardinality({i \in 1..Len(s) : IsPrefix(GET_, s[i])})

\* what a call holds when it has come no further than a given stage
StagesInOrder ==
  /\ sock = "none" => (peer = <<>> /\ sent = <<>> /\ response = "none")
  /\ peer = <<>> => sent = <<>>
  /\ Len(sent) < Len(RequestLines) => response = "none"
  /\ response = "none" => (pos = 1 /\ hlines = <<>> /\ headers = EmptyMap)
  /\ pc \notin (AfterHead \cup {"raised"}) => (ret = <<>> /\ body = <<>> /\ calls = <<>>)
  /\ GetCount(sent) <= 1
  /\ pc = "raised" <=> err.kind # "none"
  /\ err.kind # "none" => result = [headers |-> EmptyMap, body |-> <<>>]

\* one step of a call: forward in the order of the stages, never out of a
\* finished call, never a second connection or a second request line
StepInOrder ==
  /\ ~Done
  /\ IF pc' = pc THEN pc \in Loops ELSE Rank(pc') > Rank(pc)
  /\ peer # <<>> => peer' = peer
  /\ sock # "none" => sock' \notin {"none", "created"} \/ sock' = sock
  /\ IsPrefix(sent, sent') /\ Len(sent') <= Len(sent) + 1
  /\ GetCount(sent') <= 1
  /\ pc' = "raised" =>
       /\ sent' = sent
       /\ hlines' = hlines /\ headers' = headers
       /\ ret' = ret /\ body' = body
       /\ result' = result

\* C16: in every call the steps come in the order parse, connect, write
\* request, read status and headers, read body, decode; at most one
\* connection is opened and at most one GET written; the first stage that
\* fails ends the call with its error, no later stage runs and nothing is
\* tried again.
C16_OneRequestInOrder == []StagesInOrder /\ [][StepInOrder]_vars

\* a send that fails after three request lines: nothing is read, nothing retried
C16_Witness ==
  /\ pc = "raised" /\ err.kind = "OSError"
  /\ peer # <<>> /\ Len(sent) = 3 /\ GetCount(sent) = 1
  /\ response = "none" /\ sock = "closed"
  /\ hlines = <<>> /\ calls = <<>>

\* the server's stream is the chunked body of TruncatedChunks, sizes written
\* with w digits, cut off before the size line of the last, empty chunk begins
CutBeforeZeroLine(w) ==
  /\ response # "none"
  /\ Chunked
  /\ Len(srvBody) <= Len(EncodeChunks(TruncatedChunks, w))
  /\ srvBody = SubSeq(EncodeChunked(TruncatedChunks, w), 1, Len(srvBody))

\* C18: when transfer-encoding is chunked and the stream ends before a
\* chunk-size line with value 0 has been read (in a size line, inside chunk
\* data or inside the delimiter), the call fails with an error: the chunks
\* gathered so far are never returned as the body.
C18_NoPartialBody ==
  \A w \in PadWidths :
    (CutBeforeZeroLine(w) /\ pc \in AfterHead \cup {"raised"}) =>
      /\ pc \in {"body", "chunk", "raised"}
      /\ body = <<>>
      /\ result.body = <<>>

\* the steps that read from the response
Reading == {"status", "headers", "body", "chunk"}

\* the reader never stands beyond the end of the stream
ReadBounded == pos <= Len(stream) + 1

\* a step of the reading phase moves on to a later step, or is a turn of the
\* header loop or of the chunk loop that has taken at least one byte from the
\* stream; a turn made at the end of the stream raises
ReadAdvances ==
  pc \in Reading =>
    /\ \/ Rank(pc') > Rank(pc)
       \/ pc' = pc /\ pc \in {"headers", "chunk"} /\ pos' > pos
    /\ (pc \in {"status", "headers", "chunk"} /\ pos = Len(stream) + 1) =>
         pc' = "raised"

\* C19: for every finite response stream that then closes, the reading phase
\* of the call ends, by a return or by an error: the header loop leaves at
\* the blank line or raises when the stream ends first, the chunk loop leaves
\* at a zero-size chunk or raises when the stream ends first; neither loop
\* can turn forever at the end of the stream. Every step of the phase raises
\* a measure (the step reached, then the bytes taken) that the length of the
\* stream bounds, so the phase has finitely many steps.
C19_ReadingTerminates == []ReadBounded /\ [][ReadAdvances]_vars

\* the header loop met the end of the stream and left with an error
C19_Witness ==
  /\ pc = "raised" /\ err.kind = "ValueError"
  /\ response = "closed" /\ calls = <<>>
  /\ hlines # <<>> /\ pos = Len(stream) + 1
  /\ LET ls == LinesFrom(stream, 1) IN ls[Len(ls)] # CRLF

\* the chunk loop met the end of the stream and left with an error
C19_WitnessChunk ==
  /\ pc = "raised" /\ err.kind = "ValueError"
  /\ Chunked /\ ret # <<>>
  /\ pos = Len(stream) + 1

\* position i of s lies outside angle brackets: it holds no bracket, and the
\* nearest bracket before it, if there is one, is a '>'
Outside(s, i) ==
  /\ s[i] \notin {"<", ">"}
  /\ LET before == {j \in 1..(i - 1) : s[j] \in {"<", ">"}}
     IN  before # {} => s[Greatest(before)] = ">"

\* the characters of s at the positions of I, in their order
RECURSIVE Pick(_, _)
Pick(s, I) ==
  IF I = {} THEN <<>>
  ELSE <<s[Least(I)]>> \o Pick(s, I \ {Least(I)})

\* s is a slice of t
IsSlice(s, t) ==
  \E i \in 1..(Len(t) + 1) : i + Len(s) - 1 <= Len(t) /\ SubSeq(t, i, i + Len(s) - 1) = s

\* C17: for every input text, lex returns the characters of the selected text
\* (the <body ...>...</body> match when the pattern matches, otherwise the
\* whole input) that lie outside angle brackets, in their order; every
\* character from a '<' up to and with the next '>' is dropped, so the result
\* holds no '<' and no '>'; "<body key=value> test </BODY>" gives " test ".
C17_TagsStripped ==
  lexed =>
    LET sel == get_body(origin)
    IN  /\ text = Pick(sel, {i \in 1..Len(sel) : Outside(sel, i)})
        /\ \A i \in 1..Len(text) : text[i] \notin {"<", ">"}
        /\ IsSlice(sel, origin)
        /\ sel # origin =>
             /\ WordAt(sel, 1, <<"<">>) /\ sel[Len(sel)] = ">"
             /\ \E k \in 1..Len(sel) : CloseEnd(sel, k) = Len(sel)
        /\ origin = TestLexOrigin =>
             (sel = origin /\ text = <<" ", "t", "e", "s", "t", " ">>)

\* the pattern matched, and text before, inside and after the tags was dropped
C17_Witness ==
  /\ lexed
  /\ origin = <<"p">> \o TestLexOrigin \o <<"<">> \o SLASH_BODY \o <<">", "q">>
  /\ get_body(origin) # origin
  /\ text = <<" ", "t", "e", "s", "t", " ">>

\* the largest cursor_y layout gave to a character, 0 when it placed none
LargestY(dl) ==
  IF dl = <<>> THEN 0
  ELSE Greatest({dl[i][2] : i \in 1..Len(dl)})

ScrollInBounds ==
  gpc = "events" =>
    /\ min_scroll = 0
    /\ min_scroll <= scroll /\ scroll <= max_scroll
    /\ max_scroll = LargestY(display_list)
    /\ Len(display_list) = Len(text)

\* what the event just handled did to scroll
ScrollStep ==
  /\ event' \in {"Down", "WheelDown"} =>
       /\ scroll = max_scroll => scroll' = scroll
       /\ scroll' >= scroll /\ scroll' <= scroll + SCROLL_STEP
  /\ event' \in {"Up", "WheelUp"} =>
       /\ scroll = min_scroll => scroll' = scroll
       /\ scroll' <= scroll /\ scroll' >= scroll - SCROLL_STEP
  /\ event' = "WheelStill" => (scroll' = scroll /\ canvas' = canvas)

\* C20: in graphics.Browser, after load and any sequence of Up, Down and
\* MouseWheel events (delta positive, negative or zero),
\* min_scroll <= scroll <= max_scroll, where min_scroll is 0 and max_scroll is
\* the largest cursor_y layout gave to a character; a Down at max_scroll, an
\* Up at min_scroll and a MouseWheel with delta 0 leave scroll unchanged.
C20_ScrollInBounds == []ScrollInBounds /\ [][ScrollStep]_vars

\* scrolled down to the end of a page longer than two steps: the last Down
\* was cut short at max_scroll
C20_Witness ==
  /\ gpc = "events" /\ event = "Down"
  /\ max_scroll > 2 * SCROLL_STEP
  /\ scroll = max_scroll
  /\ scroll % SCROLL_STEP # 0

====
